---- MODULE Spec2Model ----
(***************************************************************************)
(* A model of torchsde/core/sdeint.py: the top-level routine sdeint, its   *)
(* helpers get_names_to_change and check_contract, and the solver dispatch *)
(* integrate / _select.                                                    *)
(*                                                                         *)
(* One behaviour of the model is one call, either of sdeint or directly of *)
(* integrate, followed statement by statement.  The arguments of the call  *)
(* are drawn in Init; the local variables the code reassigns (sde, y0, bm, *)
(* options) are variables of the model, and the observable effects (the    *)
(* warning, the default Brownian path, the calls of _select, the solvers   *)
(* constructed, the solver entry points invoked) are recorded as they      *)
(* happen.                                                                 *)
(*                                                                         *)
(* Python values are modelled as follows.                                  *)
(*   - A dict is the set of its <<key, value>> pairs; an Optional dict is  *)
(*     [isNone, items].                                                    *)
(*   - A tensor or a flat tuple of tensors is [isTuple, items], items the  *)
(*     sequence of the tensors' roles ("y0", "ys", "logqp"); a single      *)
(*     tensor has isTuple = FALSE and one item.                            *)
(*   - An SDE object is [attrs, noise_type, sde_type, wraps]: the methods  *)
(*     it has, its two tags (Absent when it has no such attribute) and the *)
(*     wrappers put around it, innermost first.                            *)
(***************************************************************************)
EXTENDS Naturals, Sequences, FiniteSets, TLC

\* The largest number of state blocks of a tupled initial state.
MaxBlocks == 2

Absent == "<absent>"
None == "None"

\* torchsde/core/settings.py is not part of the sources at hand; the three
\* enumerations are those the specification gives (sections 1 and 3).
NOISE_TYPES == {"diagonal", "general", "additive", "scalar"}

SDE_TYPES == {"ito", "stratonovich"}

METHODS == {"euler", "milstein", "srk"}

------------------------------------------------------------------------------
\* The values the arguments of a call are drawn from.

\* Names a caller's SDE object may give its methods.
AttrNames == {"f", "g", "h", "mu"}

\* noise_type: no such attribute, a recognized tag, an unrecognized one.
NoiseTags == {Absent, "levy"} \cup NOISE_TYPES

\* sde_type: no such attribute, a recognized tag, an unrecognized one.
SdeTags == {Absent, "rough"} \cup SDE_TYPES

\* method: a recognized name or an unrecognized one.
MethodArgs == {"heun"} \cup METHODS

UserSdes == [attrs : SUBSET AttrNames, noise_type : NoiseTags,
             sde_type : SdeTags, wraps : {<< >>}]

\* The SDE objects integrate is called with directly: already wrapped for the
\* engine, so they carry a noise_type attribute.
EngineSdes == [attrs : {{"f", "g"}, {"f", "g", "h"}},
               noise_type : NoiseTags \ {Absent},
               sde_type : {"ito"}, wraps : {<<"ForwardSDEIto">>}]

\* names: None, or a dict over the expected keys and a foreign one.
NamesArgs == {[isNone |-> TRUE, items |-> {}],
              [isNone |-> FALSE, items |-> {}],
              [isNone |-> FALSE, items |-> {<<"drift", "mu">>}],
              [isNone |-> FALSE, items |-> {<<"prior_drift", "mu">>}],
              [isNone |-> FALSE, items |-> {<<"score", "mu">>}],
              [isNone |-> FALSE, items |-> {<<"drift", "mu">>, <<"score", "f">>}]}

\* options: None, an empty dict, or a dict with one entry.
OptionsArgs == {[isNone |-> TRUE, items |-> {}],
                [isNone |-> FALSE, items |-> {}],
                [isNone |-> FALSE, items |-> {<<"trapezoidal_approx", "False">>}]}

Tensor(role) == [isTuple |-> FALSE, items |-> <<role>>]

TupleOf(role, n) == [isTuple |-> TRUE, items |-> [i \in 1..n |-> role]]

\* y0: a single tensor, or a tuple of 1..MaxBlocks tensors.
Y0Args == {Tensor("y0")} \cup {TupleOf("y0", n) : n \in 1..MaxBlocks}

\* bm: None, or a Brownian source of the caller's.  A caller's source returns
\* values of the form of the state (section 6, Brownian source contract).
BmNone == [src |-> None, returnsTuple |-> FALSE, wrapped |-> FALSE]

BmGiven(y) == [src |-> "caller", returnsTuple |-> y.isTuple, wrapped |-> FALSE]

\* The numerical parameters and the time grid pass through unread: one token
\* each, pairwise distinct.
Numerics == [dt |-> "dt", rtol |-> "rtol", atol |-> "atol", dt_min |-> "dt_min"]

TimeGrid == "ts"

------------------------------------------------------------------------------
VARIABLES
    entry,      \* the function the caller called: "sdeint" or "integrate"
    args,       \* the arguments of the call, as passed
    pc,         \* the statement the call is at
    sde,        \* local variable sde
    y0,         \* local variable y0
    bm,         \* local variable bm
    options,    \* local variable options of integrate
    names_to_change,  \* local variable of sdeint, Absent before line 81
    tensor_input,     \* local variable of sdeint (line 89)
    warnings,   \* number of warnings emitted
    bmCreated,  \* number of default BrownianPath objects constructed
    selected,   \* the results of the calls of _select, in order
    solvers,    \* the solvers constructed, in order
    invoked,    \* the solver entry points invoked, in order
    results,    \* local variable results / the value integrate returns
    outcome     \* how the call ended: [kind, by, why, value]

vars == <<entry, args, pc, sde, y0, bm, options, names_to_change, tensor_input,
          warnings, bmCreated, selected, solvers, invoked, results, outcome>>

\* kind: "running", "returned" or the exception raised; by: the function
\* that returned or raised; why: the check that failed; value: what was returned.
Running == [kind |-> "running", by |-> "", why |-> "", value |-> Tensor("none")]

Raised(exc, where, why) == [kind |-> exc, by |-> where, why |-> why, value |-> Tensor("none")]

Returned(where, v) == [kind |-> "returned", by |-> where, why |-> "", value |-> v]

------------------------------------------------------------------------------
\* dict helpers

HasKey(d, k) == \E p \in d : p[1] = k

Get(d, k) == (CHOOSE p \in d : p[1] = k)[2]

\* Faulty variant of get_names_to_change: every entry of names is kept,
\* whatever its key.
get_names_to_change_unfiltered(names) ==
    IF names.isNone THEN {} ELSE names.items

\* lines 116-121
get_names_to_change(names) ==
    IF names.isNone
    THEN {}
    ELSE LET keys == {"drift", "diffusion", "prior_drift"}
         IN  {<<key, Get(names.items, key)>> : key \in {k \in keys : HasKey(names.items, k)}}

\* base_sde.RenameMethodsSDE is not part of the sources at hand.  As the
\* specification describes it (section 9): an adapter that exposes, under the
\* required names f, g, h, the caller's methods of the mapped names, and
\* keeps the two tags.
RenameMethodsSDE(s, kwargs) ==
    LET param == [f |-> "drift", g |-> "diffusion", h |-> "prior_drift"]
        target(n) == IF HasKey(kwargs, param[n]) THEN Get(kwargs, param[n]) ELSE n
    IN  [s EXCEPT !.attrs = {n \in {"f", "g", "h"} : target(n) \in s.attrs},
                  !.wraps = Append(@, "RenameMethodsSDE")]

\* base_sde.TupleSDE and base_sde.ForwardSDEIto are not part of the sources
\* at hand: wrappers that keep the methods and the tags of what they wrap.
TupleSDE(s) == [s EXCEPT !.wraps = Append(@, "TupleSDE")]

ForwardSDEIto(s) == [s EXCEPT !.wraps = Append(@, "ForwardSDEIto")]

------------------------------------------------------------------------------
\* check_contract, lines 124-152

\* Faulty variant of line 125: h is never required.
required_funcs_ignores_logqp(logqp) == {"f", "g"}

\* line 125
required_funcs(logqp) == IF logqp THEN {"f", "g", "h"} ELSE {"f", "g"}

\* line 126: hasattr(sde, func) is func \in s.attrs
missing_funcs(s, logqp) == {func \in required_funcs(logqp) : func \notin s.attrs}

\* lines 150-152: the advisory, reached only when nothing was raised
Advisory(s, method, adaptive) ==
    adaptive /\ method = "euler" /\ s.noise_type # "additive"

\* Faulty variant of check_contract: the check of the method (lines 142-143)
\* is left out.
check_contract_skips_method(s, method, adaptive, logqp, adjoint_method) ==
    LET error ==
            IF missing_funcs(s, logqp) # {} THEN "missing functions"
            ELSE IF s.noise_type = Absent THEN "no noise_type"
            ELSE IF s.noise_type \notin NOISE_TYPES THEN "noise_type"
            ELSE IF s.sde_type = Absent THEN "no sde_type"
            ELSE IF s.sde_type \notin SDE_TYPES THEN "sde_type"
            ELSE IF adjoint_method # None /\ adjoint_method \notin METHODS
                 THEN "adjoint_method"
            ELSE "none"
    IN  [error |-> error,
         warned |-> error = "none" /\ Advisory(s, method, adaptive)]

\* Faulty variant of check_contract: the check of the value of noise_type
\* (lines 133-134) is left out.
check_contract_skips_noise_type(s, method, adaptive, logqp, adjoint_method) ==
    LET error ==
            IF missing_funcs(s, logqp) # {} THEN "missing functions"
            ELSE IF s.noise_type = Absent THEN "no noise_type"
            ELSE IF s.sde_type = Absent THEN "no sde_type"
            ELSE IF s.sde_type \notin SDE_TYPES THEN "sde_type"
            ELSE IF method \notin METHODS THEN "method"
            ELSE IF adjoint_method # None /\ adjoint_method \notin METHODS
                 THEN "adjoint_method"
            ELSE "none"
    IN  [error |-> error,
         warned |-> error = "none" /\ Advisory(s, method, adaptive)]

\* The exception check_contract raises ("none" when it returns), and whether it
\* emitted the warning.  The checks are tried in the order of the code; the first
\* that fails raises.
check_contract(s, method, adaptive, logqp, adjoint_method) ==
    LET error ==
            IF missing_funcs(s, logqp) # {} THEN "missing functions"        \* 127-128
            ELSE IF s.noise_type = Absent THEN "no noise_type"               \* 130-131
            ELSE IF s.noise_type \notin NOISE_TYPES THEN "noise_type"        \* 133-134
            ELSE IF s.sde_type = Absent THEN "no sde_type"                   \* 136-137
            ELSE IF s.sde_type \notin SDE_TYPES THEN "sde_type"              \* 139-140
            ELSE IF method \notin METHODS THEN "method"                      \* 142-143
            ELSE IF adjoint_method # None /\ adjoint_method \notin METHODS
                 THEN "adjoint_method"                                       \* 145-147
            ELSE "none"
    IN  [error |-> error,
         warned |-> error = "none" /\ Advisory(s, method, adaptive)]

------------------------------------------------------------------------------
\* _select, lines 176-202

\* The result of a call of _select is [kind, value, why]: "return" and the
\* implementation, "raise" and the exception, or "exit" (exit(1) ends the
\* process).  A dict literal indexed by a key gives the value, or KeyError.
Lookup(d, k) ==
    IF HasKey(d, k) THEN [kind |-> "return", value |-> Get(d, k), why |-> ""]
    ELSE [kind |-> "raise", value |-> "KeyError", why |-> "method not in the table"]

DiagonalTable == {<<"euler", "EulerDiagonal">>, <<"milstein", "MilsteinDiagonal">>,
                  <<"srk", "SRKDiagonal">>}

GeneralTable == {<<"euler", "EulerGeneral">>}

\* Faulty variant of lines 190-194: milstein has a rule of its own.
AdditiveTable_own_milstein ==
    {<<"euler", "EulerAdditive">>, <<"milstein", "MilsteinAdditive">>,
     <<"srk", "SRKAdditive">>}

AdditiveTable == {<<"euler", "EulerAdditive">>, <<"milstein", "EulerAdditive">>,
                  <<"srk", "SRKAdditive">>}

ScalarTable == {<<"euler", "EulerScalar">>, <<"milstein", "MilsteinScalar">>,
                <<"srk", "SRKScalar">>}

\* Faulty variant of _select: the guard of lines 184-185 is left out, so a
\* method other than euler falls through to the table of line 186.
_select_general_unguarded(method, noise_type) ==
    IF noise_type = "diagonal" THEN Lookup(DiagonalTable, method)
    ELSE IF noise_type = "general" THEN Lookup(GeneralTable, method)
    ELSE IF noise_type = "additive" THEN Lookup(AdditiveTable, method)
    ELSE IF noise_type = "scalar" THEN Lookup(ScalarTable, method)
    ELSE [kind |-> "exit", value |-> "SystemExit", why |-> "exit(1)"]

_select(method, noise_type) ==
    IF noise_type = "diagonal" THEN Lookup(DiagonalTable, method)
    ELSE IF noise_type = "general"
         THEN IF method # "euler"
              THEN [kind |-> "raise", value |-> "ValueError",
                    why |-> "general noise, method not euler"]
              ELSE Lookup(GeneralTable, method)
    ELSE IF noise_type = "additive" THEN Lookup(AdditiveTable, method)
    ELSE IF noise_type = "scalar" THEN Lookup(ScalarTable, method)
    ELSE [kind |-> "exit", value |-> "SystemExit", why |-> "exit(1)"]

------------------------------------------------------------------------------
\* The solver (torchsde/core/methods and the engine under it) is not part of
\* the sources at hand.  A solver is the record of what it was constructed
\* with; its two entry points return what the specification says (sections
\* 4.3, 4.4, 6): one state trajectory per state block, and for integrate_logqp
\* one log-ratio trajectory per state block after them, in one flat tuple.

solver_fn(cls, s, b, y, num, adaptive, opts) ==
    [cls |-> cls, sde |-> s, bm |-> b, y0 |-> y, dt |-> num.dt,
     adaptive |-> adaptive, rtol |-> num.rtol, atol |-> num.atol,
     dt_min |-> num.dt_min, options |-> opts]

solver_integrate(solver, ts) == TupleOf("ys", Len(solver.y0.items))

solver_integrate_logqp(solver, ts) ==
    [isTuple |-> TRUE,
     items |-> [i \in 1..Len(solver.y0.items) |-> "ys"]
               \o [i \in 1..Len(solver.y0.items) |-> "logqp"]]

------------------------------------------------------------------------------
\* The state at the call.

NoResult == Tensor("none")

CallState(e, a, at) ==
    /\ entry = e
    /\ args = a
    /\ pc = at
    /\ sde = a.sde
    /\ y0 = a.y0
    /\ bm = a.bm
    /\ options = a.options
    /\ names_to_change = {}
    /\ tensor_input = FALSE
    /\ warnings = 0
    /\ bmCreated = 0
    /\ selected = << >>
    /\ solvers = << >>
    /\ invoked = << >>
    /\ results = NoResult
    /\ outcome = Running

\* A call of sdeint (lines 35-47): any SDE object, any method name, y0 a tensor
\* or a tuple, bm None or the caller's.
InitSdeint ==
    \E s \in UserSdes, y \in Y0Args, given \in BOOLEAN, m \in MethodArgs,
       lq \in BOOLEAN, ad \in BOOLEAN, o \in OptionsArgs, n \in NamesArgs :
        CallState("sdeint",
                  [sde |-> s, y0 |-> y, ts |-> TimeGrid,
                   bm |-> IF given THEN BmGiven(y) ELSE BmNone,
                   logqp |-> lq, method |-> m, num |-> Numerics, adaptive |-> ad,
                   options |-> o, names |-> n],
                  "rename")

\* A direct call of integrate (line 155): the state and the Brownian source
\* in tuple form, a wrapped SDE; the method and the noise type are whatever
\* the caller passes.
InitIntegrate ==
    \E s \in EngineSdes, k \in 1..MaxBlocks, m \in MethodArgs,
       lq \in BOOLEAN, ad \in BOOLEAN, o \in OptionsArgs :
        CallState("integrate",
                  [sde |-> s, y0 |-> TupleOf("y0", k), ts |-> TimeGrid,
                   bm |-> BmGiven(TupleOf("y0", k)),
                   logqp |-> lq, method |-> m, num |-> Numerics, adaptive |-> ad,
                   options |-> o, names |-> [isNone |-> TRUE, items |-> {}]],
                  "select")

Init == InitSdeint \/ InitIntegrate

------------------------------------------------------------------------------
\* sdeint, lines 81-113

\* lines 81-83
Rename ==
    /\ pc = "rename"
    /\ names_to_change' = get_names_to_change(args.names)
    /\ sde' = IF Cardinality(names_to_change') > 0
              THEN RenameMethodsSDE(sde, names_to_change')
              ELSE sde
    /\ pc' = "check_contract"
    /\ UNCHANGED <<entry, args, y0, bm, options, tensor_input, warnings,
                   bmCreated, selected, solvers, invoked, results, outcome>>

\* line 84
CheckContract ==
    /\ pc = "check_contract"
    /\ LET r == check_contract(sde, args.method, args.adaptive, args.logqp, None)
       IN  /\ warnings' = IF r.warned THEN warnings + 1 ELSE warnings
           /\ IF r.error # "none"
              THEN /\ outcome' = Raised("ValueError", "check_contract", r.error)
                   /\ pc' = "done"
              ELSE /\ outcome' = outcome
                   /\ pc' = "default_bm"
    /\ UNCHANGED <<entry, args, sde, y0, bm, options, names_to_change,
                   tensor_input, bmCreated, selected, solvers, invoked, results>>

\* lines 86-87.  torch.zeros_like takes a tensor: with y0 a tuple it raises
\* TypeError and no BrownianPath is made.
DefaultBm ==
    /\ pc = "default_bm"
    /\ IF bm.src # None
       THEN /\ pc' = "wrap"
            /\ UNCHANGED <<bm, bmCreated, outcome>>
       ELSE IF y0.isTuple
       THEN /\ outcome' = Raised("TypeError", "zeros_like", "y0 is a tuple")
            /\ pc' = "done"
            /\ UNCHANGED <<bm, bmCreated>>
       ELSE /\ bm' = [src |-> "BrownianPath", returnsTuple |-> FALSE, wrapped |-> FALSE]
            /\ bmCreated' = bmCreated + 1
            /\ pc' = "wrap"
            /\ UNCHANGED outcome
    /\ UNCHANGED <<entry, args, sde, y0, options, names_to_change, tensor_input,
                   warnings, selected, solvers, invoked, results>>

\* lines 89-96, up to the call of integrate
Wrap ==
    /\ pc = "wrap"
    /\ tensor_input' = ~y0.isTuple
    /\ IF tensor_input'
       THEN /\ sde' = ForwardSDEIto(TupleSDE(sde))
            /\ y0' = [isTuple |-> TRUE, items |-> y0.items]
            /\ bm' = [bm EXCEPT !.returnsTuple = TRUE, !.wrapped = TRUE]
       ELSE /\ sde' = ForwardSDEIto(sde)
            /\ UNCHANGED <<y0, bm>>
    /\ pc' = "select"
    /\ UNCHANGED <<entry, args, options, names_to_change, warnings, bmCreated,
                   selected, solvers, invoked, results, outcome>>

\* Faulty variant of lines 111-113: the tuple is never unwrapped.
sdeint_return_keeps_tuple(res, logqp, tensor_in) == res

\* lines 111-113: results[0] is the first element of the tuple
sdeint_return(res, logqp, tensor_in) ==
    IF ~logqp /\ tensor_in THEN Tensor(res.items[1]) ELSE res

SdeintReturn ==
    /\ pc = "return"
    /\ outcome' = Returned("sdeint", sdeint_return(results, args.logqp, tensor_input))
    /\ pc' = "done"
    /\ UNCHANGED <<entry, args, sde, y0, bm, options, names_to_change,
                   tensor_input, warnings, bmCreated, selected, solvers, invoked,
                   results>>

------------------------------------------------------------------------------
\* integrate, lines 155-173

\* lines 156-157
default_options(opts) == IF opts.isNone THEN [isNone |-> FALSE, items |-> {}] ELSE opts

\* Faulty variant of lines 171-173: logqp is not looked at.
entry_point_always_integrate(logqp) == "integrate"

\* lines 171-173: the entry point of the solver that is called
entry_point(logqp) == IF logqp THEN "integrate_logqp" ELSE "integrate"

\* lines 156-159
Select ==
    /\ pc = "select"
    /\ options' = default_options(options)
    /\ LET r == _select(args.method, sde.noise_type)
       IN  /\ selected' = Append(selected, r)
           /\ IF r.kind = "return"
              THEN /\ pc' = "construct"
                   /\ UNCHANGED outcome
              ELSE /\ pc' = "done"
                   /\ outcome' = Raised(r.value, "_select", r.why)
    /\ UNCHANGED <<entry, args, sde, y0, bm, names_to_change, tensor_input,
                   warnings, bmCreated, solvers, invoked, results>>

\* lines 160-170
Construct ==
    /\ pc = "construct"
    /\ solvers' = Append(solvers,
                         solver_fn(selected[Len(selected)].value, sde, bm, y0,
                                   args.num, args.adaptive, options))
    /\ pc' = "run"
    /\ UNCHANGED <<entry, args, sde, y0, bm, options, names_to_change,
                   tensor_input, warnings, bmCreated, selected, invoked, results,
                   outcome>>

\* lines 171-173, and the return into sdeint (line 97) when sdeint called
RunSolver ==
    /\ pc = "run"
    /\ LET solver == solvers[Len(solvers)]
           fn == entry_point(args.logqp)
       IN  /\ invoked' = Append(invoked, [fn |-> fn, ts |-> args.ts])
           /\ results' = IF fn = "integrate_logqp"
                         THEN solver_integrate_logqp(solver, args.ts)
                         ELSE solver_integrate(solver, args.ts)
    /\ IF entry = "sdeint"
       THEN /\ pc' = "return"
            /\ UNCHANGED outcome
       ELSE /\ pc' = "done"
            /\ outcome' = Returned("integrate", results')
    /\ UNCHANGED <<entry, args, sde, y0, bm, options, names_to_change,
                   tensor_input, warnings, bmCreated, selected, solvers>>

Next ==
    \/ Rename
    \/ CheckContract
    \/ DefaultBm
    \/ Wrap
    \/ Select
    \/ Construct
    \/ RunSolver
    \/ SdeintReturn

Spec == Init /\ [][Next]_vars

------------------------------------------------------------------------------
\* Properties.

Range(seq) == {seq[i] : i \in DOMAIN seq}

ViaSdeint == entry = "sdeint"

\* check_contract has been called and has returned or raised
Checked == ViaSdeint /\ pc \notin {"rename", "check_contract"}

\* A violation of the SDE contract (sections 6 and 7): a required method or a
\* tag is missing, or a tag or the method is outside its enumeration.
ContractViolated(s, method, logqp) ==
    \/ "f" \notin s.attrs
    \/ "g" \notin s.attrs
    \/ logqp /\ "h" \notin s.attrs
    \/ s.noise_type = Absent
    \/ s.sde_type = Absent
    \/ s.noise_type \notin NOISE_TYPES
    \/ s.sde_type \notin SDE_TYPES
    \/ method \notin METHODS

\* Nothing of what follows check_contract in sdeint has happened.
NothingStarted ==
    /\ bmCreated = 0
    /\ bm = args.bm
    /\ y0 = args.y0
    /\ selected = << >>
    /\ solvers = << >>
    /\ invoked = << >>
    /\ results = NoResult

\* C1: a call of sdeint whose SDE (after renaming) violates the contract
\* never gets past check_contract: it ends with the ValueError check_contract
\* raises, and no default Brownian source is created, _select is not called,
\* no solver is constructed and no solver entry point is invoked.
C1_FailFast ==
    (ViaSdeint /\ pc # "rename" /\ ContractViolated(sde, args.method, args.logqp))
        => /\ pc \in {"check_contract", "done"}
           /\ pc = "done" => (outcome.kind = "ValueError" /\ outcome.by = "check_contract")
           /\ NothingStarted

\* C1 witness: a call that ended in check_contract on the last of its checks,
\* the method, with bm None and a renamed SDE.
C1_Witness ==
    /\ ViaSdeint /\ pc = "done"
    /\ ContractViolated(sde, args.method, args.logqp)
    /\ outcome.kind = "ValueError" /\ outcome.why = "method"
    /\ args.bm = BmNone
    /\ names_to_change # {}

\* The implementations written for a noise type.
ImplsFor(noise_type) ==
    IF noise_type = "diagonal" THEN {"EulerDiagonal", "MilsteinDiagonal", "SRKDiagonal"}
    ELSE IF noise_type = "general" THEN {"EulerGeneral"}
    ELSE IF noise_type = "additive" THEN {"EulerAdditive", "SRKAdditive"}
    ELSE IF noise_type = "scalar" THEN {"EulerScalar", "MilsteinScalar", "SRKScalar"}
    ELSE {}

\* The implementations of a scheme.
ImplsOf(method) ==
    IF method = "euler"
    THEN {"EulerDiagonal", "EulerGeneral", "EulerAdditive", "EulerScalar"}
    ELSE IF method = "milstein" THEN {"MilsteinDiagonal", "MilsteinScalar"}
    ELSE IF method = "srk" THEN {"SRKDiagonal", "SRKAdditive", "SRKScalar"}
    ELSE {}

\* C2: for a recognized method and noise type, _select raises ValueError
\* exactly for (milstein, general) and (srk, general), and then no solver is
\* constructed; for every other pair it returns an implementation written
\* for that noise type, which is the implementation of the method itself
\* except for milstein under additive noise; euler+diagonal gives
\* EulerDiagonal, srk+scalar SRKScalar, euler+general EulerGeneral.
C2_SelectTable ==
    (selected # << >> /\ args.method \in METHODS /\ sde.noise_type \in NOISE_TYPES)
        => LET r == selected[1]
               m == args.method
               n == sde.noise_type
           IN  IF n = "general" /\ m \in {"milstein", "srk"}
               THEN /\ r.kind = "raise" /\ r.value = "ValueError"
                    /\ solvers = << >>
                    /\ pc = "done" /\ outcome.kind = "ValueError" /\ outcome.by = "_select"
               ELSE /\ r.kind = "return"
                    /\ r.value \in ImplsFor(n)
                    /\ (m = "milstein" /\ n = "additive") \/ r.value \in ImplsOf(m)
                    /\ (m = "euler" /\ n = "diagonal") => r.value = "EulerDiagonal"
                    /\ (m = "srk" /\ n = "scalar") => r.value = "SRKScalar"
                    /\ (m = "euler" /\ n = "general") => r.value = "EulerGeneral"

\* C2 witness: srk with general noise was refused at selection, in a call
\* that came through sdeint.
C2_Witness ==
    /\ ViaSdeint /\ pc = "done"
    /\ args.method = "srk" /\ sde.noise_type = "general"
    /\ selected = <<[kind |-> "raise", value |-> "ValueError",
                     why |-> "general noise, method not euler"]>>

\* C3: under additive noise milstein selects the implementation euler
\* selects, EulerAdditive, and the solver constructed is the one euler would
\* construct from the same SDE, state, Brownian source and parameters.
C3_MilsteinAdditiveIsEuler ==
    (selected # << >> /\ sde.noise_type = "additive" /\ args.method \in {"euler", "milstein"})
        => /\ selected[1] = [kind |-> "return", value |-> "EulerAdditive", why |-> ""]
           /\ selected[1] = _select("euler", "additive")
           /\ solvers # << >> =>
                solvers[1] = solver_fn(_select("euler", "additive").value, sde, bm, y0,
                                       args.num, args.adaptive, options)

\* C3 witness: a call of sdeint with milstein and additive noise that returned.
C3_Witness ==
    /\ ViaSdeint /\ pc = "done" /\ outcome.kind = "returned"
    /\ args.method = "milstein" /\ sde.noise_type = "additive"
    /\ solvers # << >> /\ solvers[1].cls = "EulerAdditive"

\* C4: for an SDE that has f and g, the check of the required methods fails
\* exactly when logqp is true and the SDE has no h.
C4_PriorDriftIffLogqp ==
    (Checked /\ {"f", "g"} \subseteq sde.attrs)
        => ((outcome.kind = "ValueError" /\ outcome.why = "missing functions")
                <=> (args.logqp /\ "h" \notin sde.attrs))

\* C4 witness: an SDE with f and g and no h, otherwise valid, was rejected
\* for its missing method under logqp.
C4_Witness ==
    /\ Checked /\ pc = "done"
    /\ sde.attrs = {"f", "g"} /\ args.logqp
    /\ ~ContractViolated(sde, args.method, FALSE)
    /\ outcome.kind = "ValueError" /\ outcome.why = "missing functions"

\* The number of state blocks of the initial state as passed.
Blocks == Len(args.y0.items)

C6_NoExitViaSdeint ==
    ViaSdeint =>
        /\ \A i \in DOMAIN selected :
              \/ selected[i].kind = "return"
              \/ /\ selected[i].kind = "raise" /\ selected[i].value = "ValueError"
                 /\ sde.noise_type = "general" /\ args.method # "euler"
        /\ outcome.kind \notin {"SystemExit", "KeyError"}
        /\ (pc = "done" /\ sde.noise_type \notin NOISE_TYPES)
              => (outcome.kind = "ValueError" /\ outcome.by = "check_contract")

\* C6 witness: an SDE valid but for its unrecognized noise type was refused
\* by check_contract.
C6_Witness ==
    /\ ViaSdeint /\ pc = "done"
    /\ sde.noise_type = "levy"
    /\ outcome.kind = "ValueError" /\ outcome.why = "noise_type"
    /\ selected = << >>

\* C7: an SDE that sdeint puts under the forward Ito wrapper, and so hands
\* to the solver, has sde_type ito.
C7_OnlyIto ==
    (ViaSdeint /\ "ForwardSDEIto" \in Range(sde.wraps)) => sde.sde_type = "ito"

\* C8: a call of integrate calls _select once; when _select does not return
\* an implementation no solver is constructed and nothing is invoked;
\* otherwise one solver is constructed, from the arguments of integrate, with
\* options an empty dict in place of None, and one entry point is invoked
\* once: integrate_logqp(ts) under logqp, integrate(ts) otherwise.
C8_OneSolverOneEntryPoint ==
    /\ Len(selected) <= 1 /\ Len(solvers) <= 1 /\ Len(invoked) <= 1
    /\ pc \in {"construct", "run", "return"} =>
            (Len(selected) = 1 /\ selected[1].kind = "return")
    /\ (selected # << >> /\ selected[1].kind # "return") =>
            (solvers = << >> /\ invoked = << >> /\ pc = "done")
    /\ solvers # << >> =>
        /\ solvers[1] = [cls |-> selected[1].value, sde |-> sde, bm |-> bm, y0 |-> y0,
                         dt |-> args.num.dt, adaptive |-> args.adaptive,
                         rtol |-> args.num.rtol, atol |-> args.num.atol,
                         dt_min |-> args.num.dt_min,
                         options |-> IF args.options.isNone
                                     THEN [isNone |-> FALSE, items |-> {}]
                                     ELSE args.options]
        /\ entry = "integrate" =>
                (solvers[1].sde = args.sde /\ solvers[1].bm = args.bm
                    /\ solvers[1].y0 = args.y0)
    /\ invoked # << >> =>
        /\ solvers # << >>
        /\ invoked = <<[fn |-> IF args.logqp THEN "integrate_logqp" ELSE "integrate",
                        ts |-> args.ts]>>
    /\ (pc = "return" \/ outcome.kind = "returned") => Len(invoked) = 1

\* C8 witness: a direct call of integrate under logqp, options None, that
\* returned after one call of integrate_logqp.
C8_Witness ==
    /\ entry = "integrate" /\ pc = "done" /\ outcome.kind = "returned"
    /\ args.logqp /\ args.options.isNone
    /\ Len(solvers) = 1 /\ solvers[1].options = [isNone |-> FALSE, items |-> {}]
    /\ invoked = <<[fn |-> "integrate_logqp", ts |-> TimeGrid]>>

\* The advisory of check_contract is due: every check passed, and the step
\* is adaptive, the method euler, the noise not additive.
AdvisoryDue ==
    /\ ~ContractViolated(sde, args.method, args.logqp)
    /\ args.adaptive /\ args.method = "euler" /\ sde.noise_type # "additive"

\* C9 (first and last part): check_contract warns exactly when the advisory
\* is due, once, and never in a call it ends with a ValueError.
C9_AdvisoryIff ==
    ViaSdeint =>
        /\ ~Checked => warnings = 0
        /\ Checked => (warnings = 1 <=> AdvisoryDue)
        /\ warnings <= 1
        /\ warnings = 1 => (outcome.kind # "ValueError" /\ pc # "check_contract")

\* C9: check_contract warns exactly when the advisory is due, never in a
\* call it ends with a ValueError, and a call that warned goes on to the
\* integration: integrate is entered and _select called.
C9_AdvisoryNonFatal ==
    /\ C9_AdvisoryIff
    /\ (ViaSdeint /\ warnings = 1 /\ pc = "done") => selected # << >>

\* The name under which the caller's SDE has the required method fn.
MappedName(fn) ==
    LET key == [f |-> "drift", g |-> "diffusion", h |-> "prior_drift"][fn]
    IN  IF ~args.names.isNone /\ HasKey(args.names.items, key)
        THEN Get(args.names.items, key)
        ELSE fn

\* C10: names_to_change holds exactly the entries of names under drift,
\* diffusion, prior_drift (none for None); the SDE is put under the renaming
\* adapter, once and innermost, exactly when there is such an entry; this is
\* done before check_contract runs, whose check of the required methods
\* fails exactly when the caller's SDE lacks one under its mapped name.
C10_RenameBeforeCheck ==
    ViaSdeint =>
        /\ pc = "rename" => (sde = args.sde /\ warnings = 0 /\ outcome = Running)
        /\ pc # "rename" =>
            /\ names_to_change =
                 IF args.names.isNone THEN {}
                 ELSE {p \in args.names.items :
                          p[1] \in {"drift", "diffusion", "prior_drift"}}
            /\ ("RenameMethodsSDE" \in Range(sde.wraps)) <=> names_to_change # {}
            /\ \A i \in DOMAIN sde.wraps : sde.wraps[i] = "RenameMethodsSDE" => i = 1
        /\ Checked =>
            ((outcome.kind = "ValueError" /\ outcome.why = "missing functions")
                <=> \E fn \in (IF args.logqp THEN {"f", "g", "h"} ELSE {"f", "g"}) :
                        MappedName(fn) \notin args.sde.attrs)

\* C10 witness: a caller whose drift is called mu, and who also passed a
\* foreign key, got through check_contract with no f of its own.
C10_Witness ==
    /\ Checked /\ outcome.kind # "ValueError"
    /\ args.names.items = {<<"drift", "mu">>, <<"score", "f">>}
    /\ names_to_change = {<<"drift", "mu">>}
    /\ "f" \notin args.sde.attrs /\ "mu" \in args.sde.attrs
    /\ sde.wraps[1] = "RenameMethodsSDE"

====
